---- MODULE Spec2Model ----
(***************************************************************************)
(* A model of scripts/make_fig1_overlay_from_audits.py: the schema-        *)
(* tolerant loader (load_series), the log-log fitter (ols_log10), the      *)
(* duplicate detectors (sha256_short buckets, nearly_identical), the tick  *)
(* selector (_nice_sparse_log_ticks) and the composer (make_overlay).      *)
(*                                                                         *)
(* Numbers.  A dt or tail_median value is the float k * 2^-41, written as  *)
(* the integer k: every such value (|k| small), every difference of two    *)
(* of them and every doubling is exact in binary64, so comparisons,        *)
(* subtraction and the x-jitter used below are computed here exactly as    *)
(* the interpreter computes them.  The absolute tolerance 1e-12 of         *)
(* nearly_identical lies strictly between 2 and 3 of these units           *)
(* (1e-12 / 2^-41 = 2.199...).  Run counts and point counts are plain      *)
(* integers.                                                               *)
(***************************************************************************)
EXTENDS Integers, Sequences, FiniteSets, TLC

VARIABLES
    \* make_overlay: position, arguments, loop index and effects
    pc, args, idx, dirCreated, printed, digests, series_data, fitcalls,
    drawn, caption, handles, yticks, outWritten, err,
    \* load_series called on its own: the file and the outcome
    l_file, l_out,
    \* ols_log10 called on its own: the arguments and the outcome
    f_in, f_out,
    \* _nice_sparse_log_ticks called on its own: the arguments and the outcome
    t_in, t_out,
    \* the interpreter the script runs on: how its built-in sum() adds floats
    py_sum

pipeVars == <<pc, args, idx, dirCreated, printed, digests, series_data,
              fitcalls, drawn, caption, handles, yticks, outWritten, err>>
loadVars == <<l_file, l_out>>
fitVars  == <<f_in, f_out>>
tickVars == <<t_in, t_out>>
envVars == <<py_sum>>
vars == <<pipeVars, loadVars, fitVars, tickVars, envVars>>

----------------------------------------------------------------------------
(* Bounds of the model *)

\* longest list of points in a file given to load_series on its own
MaxItems == 3
\* longest series given to ols_log10 on its own
MaxPts == 3
\* largest max_labels given to _nice_sparse_log_ticks
MaxLabels == 4

----------------------------------------------------------------------------
(* Sequence helpers *)

Min2(a, b) == IF a <= b THEN a ELSE b
Abs(a) == IF a < 0 THEN -a ELSE a
Front(s) == SubSeq(s, 1, Len(s) - 1)
Last(s) == s[Len(s)]

----------------------------------------------------------------------------
(* JSON values as json.loads returns them *)

\* a JSON number k * 2^-41 (or, for "runs" and "n", the integer k)
N(k) == [t |-> "num", v |-> k]
\* a JSON string holding the numeral of that number: float() and int() parse it
S(k) == [t |-> "numstr", v |-> k]
\* a JSON string that is no numeral, such as "n/a"
BadStr == [t |-> "str", v |-> 0]
\* JSON null
Null == [t |-> "null", v |-> 0]
\* no such key, or no such list element
Absent == [t |-> "absent", v |-> 0]

\* one element of a "report"/"series"/"points" list
\* a mapping with (some of) the keys dt, tail_median, runs
Dict(dt, tm, runs) == [shape |-> "dict", a |-> dt, b |-> tm, c |-> runs]
\* a list [a, b, c] (c Absent: [a, b]; b Absent too: [a])
List(a, b, c) == [shape |-> "list", a |-> a, b |-> b, c |-> c]
Pair(x, y) == List(x, y, Absent)

\* a top-level value: a list of elements, null, a missing key, or another value
JList(items) == [t |-> "list", items |-> items]
JNull == [t |-> "null", items |-> <<>>]
JAbsent == [t |-> "absent", items |-> <<>>]
JOther == [t |-> "other", items |-> <<>>]

\* len(pair) of a list element
ListLen(it) ==
    IF it.a.t = "absent" THEN 0
    ELSE IF it.b.t = "absent" THEN 1
    ELSE IF it.c.t = "absent" THEN 2 ELSE 3

\* float(v): the value, or the exception it raises
FloatOf(v) ==
    CASE v.t = "num" -> [ok |-> TRUE, v |-> v.v, exc |-> "none"]
      [] v.t = "numstr" -> [ok |-> TRUE, v |-> v.v, exc |-> "none"]
      [] v.t = "str" -> [ok |-> FALSE, v |-> 0, exc |-> "ValueError"]
      [] v.t = "null" -> [ok |-> FALSE, v |-> 0, exc |-> "TypeError"]
      [] OTHER -> [ok |-> FALSE, v |-> 0, exc |-> "KeyError"]

\* int(it.get("runs", 0)): the key's default is 0; null and non-numerals raise
IntOfRuns(v) ==
    CASE v.t = "absent" -> [ok |-> TRUE, v |-> 0, exc |-> "none"]
      [] v.t = "num" -> [ok |-> TRUE, v |-> v.v, exc |-> "none"]
      [] v.t = "numstr" -> [ok |-> TRUE, v |-> v.v, exc |-> "none"]
      [] v.t = "str" -> [ok |-> FALSE, v |-> 0, exc |-> "ValueError"]
      [] OTHER -> [ok |-> FALSE, v |-> 0, exc |-> "TypeError"]

\* _try_get(obj, "report", "series", default=[]): the first key present and not None
TryGetItems(obj) ==
    IF obj.report.t \notin {"absent", "null"} THEN obj.report
    ELSE IF obj.series.t \notin {"absent", "null"} THEN obj.series
    ELSE JList(<<>>)

----------------------------------------------------------------------------
(* load_series *)

\* the accumulators of the loops: xs, ys, runs, and the exception that ended them
Acc0 == [xs |-> <<>>, ys |-> <<>>, runs |-> <<>>, exc |-> "none"]

\* a faulty retention test, which forgets the y > 0 conjunct
KeepXOnly(x, y) == x > 0

\* the retention test of both schemas
Keep(x, y) == x > 0 /\ y > 0

\* one turn of the per-point-dict loop (lines 100-109)
StepA(acc, it) ==
    IF acc.exc # "none" THEN acc
    ELSE IF it.shape # "dict" THEN acc            \* it["dt"] raises TypeError: continue
    ELSE LET x == FloatOf(it.a)
             y == FloatOf(it.b)
             r == IntOfRuns(it.c)
         IN  IF ~x.ok \/ ~y.ok THEN acc           \* except Exception: continue
             ELSE IF ~Keep(x.v, y.v) THEN acc
             ELSE IF ~r.ok THEN [acc EXCEPT !.xs = Append(@, x.v),
                                            !.ys = Append(@, y.v),
                                            !.exc = r.exc]
             ELSE [acc EXCEPT !.xs = Append(@, x.v), !.ys = Append(@, y.v),
                              !.runs = Append(@, r.v)]

\* one turn of the [x, y] loop (lines 114-121)
StepB(acc, it) ==
    IF acc.exc # "none" THEN acc
    ELSE IF it.shape # "list" \/ ListLen(it) < 2 THEN acc
    ELSE LET x == FloatOf(it.a)
             y == FloatOf(it.b)
         IN  IF ~x.ok THEN [acc EXCEPT !.exc = x.exc]
             ELSE IF ~y.ok THEN [acc EXCEPT !.exc = y.exc]
             ELSE IF ~Keep(x.v, y.v) THEN acc
             ELSE [acc EXCEPT !.xs = Append(@, x.v), !.ys = Append(@, y.v)]

RECURSIVE LoopA(_, _)
LoopA(acc, items) ==
    IF items = <<>> THEN acc ELSE LoopA(StepA(acc, Head(items)), Tail(items))

RECURSIVE LoopB(_, _)
LoopB(acc, items) ==
    IF items = <<>> THEN acc ELSE LoopB(StepB(acc, Head(items)), Tail(items))

\* zip(xs, ys, runs): as long as the shortest
Zip3(xs, ys, runs) ==
    [i \in 1..Min2(Len(xs), Min2(Len(ys), Len(runs))) |->
        [x |-> xs[i], y |-> ys[i], r |-> runs[i]]]

\* a faulty insertion, which puts an element before those of equal key (unstable)
RECURSIVE InsertBeforeEqual(_, _)
InsertBeforeEqual(s, e) ==
    IF s = <<>> THEN <<e>>
    ELSE IF Last(s).x < e.x THEN Append(s, e)
    ELSE Append(InsertBeforeEqual(Front(s), e), Last(s))

\* sorted(z, key=lambda t: t[0]): stable, each element goes after those with a key <= its own
RECURSIVE InsertByX(_, _)
InsertByX(s, e) ==
    IF s = <<>> THEN <<e>>
    ELSE IF Last(s).x <= e.x THEN Append(s, e)
    ELSE Append(InsertByX(Front(s), e), Last(s))

RECURSIVE SortByX(_)
SortByX(s) == IF s = <<>> THEN <<>> ELSE InsertByX(SortByX(Front(s)), Last(s))

\* the declared point count of the [x, y] schema: int(obj.get("n", len(xs))) if xs else None
NPtsB(obj, xs) ==
    IF xs = <<>> THEN [ok |-> TRUE, some |-> FALSE, v |-> 0, exc |-> "none"]
    ELSE IF obj.n.t = "absent" THEN [ok |-> TRUE, some |-> TRUE, v |-> Len(xs), exc |-> "none"]
    ELSE LET n == IntOfRuns(obj.n)
         IN  [ok |-> n.ok, some |-> n.ok, v |-> n.v, exc |-> n.exc]

\* which branch lines 99, 113, 125 take
Schema(obj) ==
    LET items == TryGetItems(obj)
    IN  IF /\ items.t = "list"
           /\ items.items # <<>>
           /\ items.items[1].shape = "dict"
           /\ items.items[1].a.t # "absent"
        THEN "A"
        ELSE IF obj.points.t = "list" THEN "B"
        ELSE "none"

\* the lists the loops leave behind, before the sort
Parsed(obj) ==
    CASE Schema(obj) = "A" -> LoopA(Acc0, TryGetItems(obj).items)
      [] Schema(obj) = "B" ->
            LET acc == LoopB(Acc0, obj.points.items)
            IN  [acc EXCEPT !.runs = [i \in 1..Len(acc.xs) |-> 0]]
      [] OTHER -> Acc0

Raised(e) == [ok |-> FALSE, exc |-> e, xs |-> <<>>, ys |-> <<>>, runs |-> <<>>,
              n_some |-> FALSE, n_pts |-> 0]

\* load_series(audit_path) on the parsed file: (xs, ys, runs, n_pts) or the exception
load_series(obj) ==
    LET acc == Parsed(obj)
        np == CASE Schema(obj) = "A" ->
                      [ok |-> TRUE, some |-> acc.xs # <<>>, v |-> Len(acc.xs), exc |-> "none"]
                [] Schema(obj) = "B" -> NPtsB(obj, acc.xs)
                [] OTHER -> [ok |-> TRUE, some |-> FALSE, v |-> 0, exc |-> "none"]
        z == SortByX(Zip3(acc.xs, acc.ys, acc.runs))
    IN  IF acc.exc # "none" THEN Raised(acc.exc)
        ELSE IF ~np.ok THEN Raised(np.exc)
        ELSE [ok |-> TRUE, exc |-> "none",
              xs |-> [i \in 1..Len(z) |-> z[i].x],
              ys |-> [i \in 1..Len(z) |-> z[i].y],
              runs |-> [i \in 1..Len(z) |-> z[i].r],
              n_some |-> np.some, n_pts |-> IF np.some THEN np.v ELSE 0]

----------------------------------------------------------------------------
(* ols_log10 *)

(* binary64 arithmetic for the mean of the logarithms.  A magnitude is a   *)
(* pair <<hi, lo>> standing for hi * 2^26 + lo, counted in units of the    *)
(* last place of the value being summed; a significand holds 53 bits.      *)
SigBase == 67108864
SigTop == 134217728

\* math.log10(k * 2^-41): the 53-bit significand of its magnitude.  For these k
\* the logarithm is negative with 8 <= |log10| < 16, so the values differ
\* exactly when the significands do.
Log10Sig(k) ==
    CASE k = 1 -> <<103534127, 55333967>>    \* -12.34222982222323
      [] k = 2 -> <<101008905, 13064319>>    \* -12.041199826559248
      [] k = 3 -> <<99531744, 43636127>>     \* -11.865108567503567
      [] k = 4 -> <<98483682, 37903535>>     \* -11.740169830895267
      [] k = 5 -> <<97670742, 30494751>>     \* -11.64325981788721
      [] k = 6 -> <<97006522, 1366479>>      \* -11.564078571839586
      [] k = 7 -> <<96444931, 43304843>>     \* -11.497131782208973
      [] k = 8 -> <<95958459, 62742751>>     \* -11.439139835231286
      [] k = 12 -> <<94481299, 26205695>>    \* -11.263048576175605
      [] k = 16 -> <<93433237, 20473103>>    \* -11.138109839567305
      [] k = 31 -> <<91023679, 12666706>>    \* -10.850868128388957
      [] k = 62 -> <<88498456, 37505922>>    \* -10.549838132724975

SigNorm(hi, lo) == <<hi + (lo \div SigBase), lo % SigBase>>

\* the spacing of the floats around a magnitude with high limb hi: 1 unit up to
\* 53 bits, doubling with every further bit
RECURSIVE Spacing(_)
Spacing(hi) == IF hi < SigTop THEN 1 ELSE 2 * Spacing(hi \div 2)

\* a float addition of two magnitudes of one sign: the exact sum, rounded to
\* 53 significant bits, to nearest, ties to even.  (High limbs stay below
\* 2^31, which covers sums of up to 20 of the logarithms above.)
FloatAdd(a, b) ==
    LET hi == a[1] + b[1] + ((a[2] + b[2]) \div SigBase)
        lo == (a[2] + b[2]) % SigBase
        g == Spacing(hi)
        r == lo % g
        up == (2 * r > g) \/ (2 * r = g /\ (lo \div g) % 2 = 1)
    IN  SigNorm(hi, lo - r + (IF up THEN g ELSE 0))

\* a float division of a magnitude by the count n: the exact quotient, rounded
\* to the last place of the summand, to nearest, ties to even
FloatDivN(s, n) ==
    LET qh == s[1] \div n
        t == (s[1] % n) * SigBase + s[2]
        ql == t \div n
        rem == t % n
        up == (2 * rem > n) \/ (2 * rem = n /\ ql % 2 = 1)
    IN  SigNorm(qh, ql + (IF up THEN 1 ELSE 0))

\* The built-in sum() of line 147 adds floats in one of two ways, by the
\* interpreter: CPython up to 3.11 adds left to right and rounds after each
\* addition; CPython from 3.12 on keeps a compensation (Neumaier's sum).
SumImpls == {"naive", "compensated"}

\* sum(lx) for n copies of one value, added left to right: 0.0 + v is exact,
\* each later addition rounds
RECURSIVE SumNaive(_, _)
SumNaive(sig, n) ==
    IF n = 1 THEN sig ELSE FloatAdd(SumNaive(sig, n - 1), sig)

\* the rounding error of the float addition a + b, (a + b) - fl(a + b), a signed
\* count of units of the last place of the summand
AddError(a, b) ==
    LET t == FloatAdd(a, b)
    IN  (a[1] + b[1] - t[1]) * SigBase + (a[2] + b[2] - t[2])

\* the compensated sum after n copies of one value: the running total t, as in
\* SumNaive, and the compensation c, to which every addition adds its rounding
\* error ((total - t) + x, or (x - t) + total: both are exact here)
RECURSIVE SumCompensatedState(_, _)
SumCompensatedState(sig, n) ==
    IF n = 1 THEN [t |-> sig, c |-> 0]
    ELSE LET p == SumCompensatedState(sig, n - 1)
         IN  [t |-> FloatAdd(p.t, sig), c |-> p.c + AddError(p.t, sig)]

\* the compensated sum: the total plus the compensation, one more float addition
SumCompensated(sig, n) ==
    LET st == SumCompensatedState(sig, n)
    IN  IF st.c = 0 THEN st.t ELSE FloatAdd(st.t, <<0, st.c>>)

\* sum(lx) for n copies of one value on the interpreter impl
FloatSumN(impl, sig, n) ==
    IF impl = "naive" THEN SumNaive(sig, n) ELSE SumCompensated(sig, n)

\* sxx == 0 (lines 147-150).  With two different logarithms in lx some term
\* (x - xm) ** 2 is positive.  With one logarithm v repeated n times every
\* term is (v - xm) ** 2, which is zero exactly when xm = sum(lx) / n gives v back.
SxxIsZero(impl, lxs) ==
    /\ \A i \in 1..Len(lxs) : lxs[i] = lxs[1]
    /\ FloatDivN(FloatSumN(impl, Log10Sig(lxs[1]), Len(lxs)), Len(lxs)) = Log10Sig(lxs[1])

\* the crude t criticals of lines 163-172, in thousandths
TCrit(df) ==
    IF df <= 0 THEN 1960
    ELSE IF df = 1 THEN 12706
    ELSE IF df = 2 THEN 4303
    ELSE IF df <= 20 THEN 2086
    ELSE 1960

\* pts of line 141: zip(xs, ys), the pairs with x > 0 and y > 0
Usable(xs, ys) ==
    LET n == Min2(Len(xs), Len(ys))
        F[i \in 0..n] ==
            IF i = 0 THEN <<>>
            ELSE IF xs[i] > 0 /\ ys[i] > 0
                 THEN Append(F[i - 1], [x |-> xs[i], y |-> ys[i]])
                 ELSE F[i - 1]
    IN  F[n]

NoFit == [some |-> FALSE, n |-> 0, df |-> 0, tcrit |-> 0, pts |-> <<>>]

\* ols_log10(xs, ys) on the interpreter impl: None, or the fit.  The slope,
\* intercept, interval and R^2 are real-valued functions of pts and are carried
\* as pts; n, df and the critical value are computed.
ols_log10(impl, xs, ys) ==
    LET pts == Usable(xs, ys)
        n == Len(pts)
    IN  IF n < 3 THEN NoFit
        ELSE IF SxxIsZero(impl, [i \in 1..n |-> pts[i].x]) THEN NoFit
        ELSE [some |-> TRUE, n |-> n, df |-> n - 2, tcrit |-> TCrit(n - 2), pts |-> pts]

----------------------------------------------------------------------------
(* _nice_sparse_log_ticks *)

(* An axis limit is [cls, t, e, k]: cls "pos" is the positive float          *)
(* (t / 10 + e * 1e-14) * 10^k with 10 <= t <= 99 tenths (and e >= 0 when    *)
(* t = 10), so that floor(log10(y)) = k; the other classes are 0.0, a        *)
(* negative float, an infinity and NaN.  The offsets e used are far (5e-13)  *)
(* from the 1e-12 tolerance, so float rounding (1e-16) decides none of the    *)
(* comparisons below.                                                        *)
YPos(t, e, k) == [cls |-> "pos", t |-> t, e |-> e, k |-> k]
YSpecial(c) == [cls |-> c, t |-> 10, e |-> 0, k |-> 0]

\* the 1e-12 of line 71, in units of 1e-14
TickTol == 100

\* y / 10^k as hundredths plus units of 1e-14, for a y at most one decade away
Mantissa(y, k) ==
    CASE y.k = k -> [c |-> 10 * y.t, f |-> y.e]
      [] y.k = k + 1 -> [c |-> 100 * y.t, f |-> 10 * y.e]
      [] y.k = k - 1 -> [c |-> y.t, f |-> y.e \div 10]

\* a <= b + tol for two such numbers
LeqTol(a, b, tol) == a.c < b.c \/ (a.c = b.c /\ a.f <= b.f + tol)

\* np.round(np.arange(1.0, 10.0, 0.2), 1): 1.0, 1.2, ..., 9.8, in tenths
Cand == [i \in 1..45 |-> 8 + 2 * i]

\* a faulty mask, which forgets the upper limit
InRangeLowerOnly(c, mmin, mmax) == LeqTol(mmin, [c |-> 10 * c, f |-> 0], TickTol)

\* the mask of line 71: (cand >= mmin - 1e-12) & (cand <= mmax + 1e-12)
InRange(c, mmin, mmax) ==
    LET m == [c |-> 10 * c, f |-> 0]
    IN  LeqTol(mmin, m, TickTol) /\ LeqTol(m, mmax, TickTol)

\* cand[mask]: the candidates kept, in order
Picks(mmin, mmax) ==
    LET F[i \in 0..Len(Cand)] ==
            IF i = 0 THEN <<>>
            ELSE IF InRange(Cand[i], mmin, mmax) THEN Append(F[i - 1], Cand[i])
            ELSE F[i - 1]
    IN  F[Len(Cand)]

\* np.linspace(0, L - 1, num=n, dtype=int), as 1-based positions: n evenly
\* spaced indices, truncated, the last one L - 1 itself
LinspaceIdx(L, n) ==
    [i \in 1..n |-> IF n = 1 THEN 1 ELSE (((i - 1) * (L - 1)) \div (n - 1)) + 1]

\* _nice_sparse_log_ticks(ymin, ymax, max_labels): the ticks, each a candidate
\* mantissa c (tenths) times 10^k, or the g-th point of the geometric fallback
\* np.geomspace(max(1.0, mmin), min(9.99, mmax), num=max_labels) times 10^k
nice_sparse_log_ticks(ymin, ymax, max_labels) ==
    IF ymin.cls # "pos" \/ ymax.cls # "pos" THEN <<>>
    ELSE LET k == ymin.k
             cands == Picks(Mantissa(ymin, k), Mantissa(ymax, k))
             picks == IF cands = <<>>
                      THEN [i \in 1..max_labels |-> [kind |-> "geom", c |-> i, k |-> k]]
                      ELSE [i \in 1..Len(cands) |-> [kind |-> "cand", c |-> cands[i], k |-> k]]
             pos == LinspaceIdx(Len(picks), Min2(max_labels, Len(picks)))
         IN  [i \in 1..Len(pos) |-> picks[pos[i]]]

----------------------------------------------------------------------------
(* The duplicate detectors *)

\* tol=1e-12 of nearly_identical in units of 2^-41, rounded down: differences
\* of 0, 1 and 2 units are within it, 3 and more are not
Tol == 2

\* nearly_identical(a, b)
nearly_identical(a, b) ==
    IF Len(a) # Len(b) THEN FALSE
    ELSE \A i \in 1..Len(a) : Abs(a[i] - b[i]) <= Tol

\* sha256_short(p): the first 10 hex digits of the SHA-256 of the file's bytes,
\* a function of the bytes alone into 16^10 values, so not one-to-one: the
\* files 1 and 9 below stand for two different files with one short hash
sha256_short(bytes) == IF bytes = 9 THEN 101 ELSE 100 + bytes

\* buckets.setdefault(d, []).append(lbl) over digests, then the buckets with
\* more than one label, in order of first appearance (lines 220-223)
Bucket(ds, d) ==
    LET F[i \in 0..Len(ds)] ==
            IF i = 0 THEN <<>>
            ELSE IF ds[i].d = d THEN Append(F[i - 1], ds[i].label) ELSE F[i - 1]
    IN  F[Len(ds)]

\* a faulty grouping, which also reports the buckets of a single label
DupGroupsAnySize(ds) ==
    LET F[i \in 0..Len(ds)] ==
            IF i = 0 THEN <<>>
            ELSE IF \A j \in 1..(i - 1) : ds[j].d # ds[i].d
                 THEN Append(F[i - 1], Bucket(ds, ds[i].d))
                 ELSE F[i - 1]
    IN  F[Len(ds)]

DupGroups(ds) ==
    LET F[i \in 0..Len(ds)] ==
            IF i = 0 THEN <<>>
            ELSE IF /\ \A j \in 1..(i - 1) : ds[j].d # ds[i].d
                    /\ Len(Bucket(ds, ds[i].d)) > 1
                 THEN Append(F[i - 1], Bucket(ds, ds[i].d))
                 ELSE F[i - 1]
    IN  F[Len(ds)]

\* the pairs (i, j) with i < j <= n, in the order of the loops of lines 278-279
RECURSIVE PairsFrom(_, _)
PairsFrom(i, n) ==
    IF i >= n THEN <<>>
    ELSE [m \in 1..(n - i) |-> <<i, i + m>>] \o PairsFrom(i + 1, n)

\* the warnings of lines 277-284 over series_data, in the order printed
NumericWarnings(sd) ==
    LET ps == PairsFrom(1, Len(sd))
        Hit(i, j) == /\ sd[i].xs # <<>>
                     /\ sd[j].xs # <<>>
                     /\ nearly_identical(sd[i].xs, sd[j].xs)
                     /\ nearly_identical(sd[i].ys, sd[j].ys)
        F[p \in 0..Len(ps)] ==
            IF p = 0 THEN <<>>
            ELSE IF Hit(ps[p][1], ps[p][2])
                 THEN Append(F[p - 1], [kind |-> "numwarn",
                                        a |-> sd[ps[p][1]].label,
                                        b |-> sd[ps[p][2]].label])
                 ELSE F[p - 1]
    IN  F[Len(ps)]

----------------------------------------------------------------------------
(* The input files of the composer *)

Obj(report, series, points, n) ==
    [report |-> report, series |-> series, points |-> points, n |-> n]

\* the parsed contents of the file whose bytes are b
FileObj(b) ==
    CASE b = 1 -> Obj(JAbsent, JAbsent,
                      JList(<<Pair(N(1), N(1)), Pair(N(2), N(4)), Pair(N(4), N(16))>>), N(3))
      \* the same series as file 1 in the other schema
      [] b = 2 -> Obj(JAbsent,
                      JList(<<Dict(N(1), N(1), N(3)), Dict(N(2), N(4), N(3)),
                              Dict(N(4), N(16), N(3))>>), JAbsent, Absent)
      \* two points only
      [] b = 3 -> Obj(JList(<<Dict(N(1), N(1), Absent), Dict(N(2), N(1), Absent)>>),
                      JAbsent, JAbsent, Absent)
      \* neither "report"/"series" nor "points"
      [] b = 4 -> Obj(JAbsent, JAbsent, JAbsent, Absent)
      \* file 1 with every dt 2 units (9.1e-13) larger
      [] b = 5 -> Obj(JAbsent, JAbsent,
                      JList(<<Pair(N(3), N(1)), Pair(N(4), N(4)), Pair(N(6), N(16))>>), Absent)
      \* a recognized schema, every point dropped
      [] b = 6 -> Obj(JList(<<Dict(N(0), N(1), N(3)), Dict(N(2), N(-1), N(3))>>),
                      JAbsent, JAbsent, Absent)
      \* a non-numeric dt among the pairs
      [] b = 7 -> Obj(JAbsent, JAbsent,
                      JList(<<Pair(N(1), N(1)), Pair(BadStr, N(4)), Pair(N(4), N(16))>>), Absent)
      \* file 1 with every dt doubled
      [] b = 8 -> Obj(JAbsent, JAbsent,
                      JList(<<Pair(N(2), N(1)), Pair(N(4), N(4)), Pair(N(8), N(16))>>), Absent)
      \* another series, with the short hash of file 1
      [] b = 9 -> Obj(JAbsent, JAbsent,
                      JList(<<Pair(N(1), N(2)), Pair(N(2), N(4)), Pair(N(4), N(2))>>), Absent)

FileIds == 1..9

\* a path argument: not given (None), given but no such file, or a file
NoPath == [st |-> "none", bytes |-> 0]
MissingPath == [st |-> "missing", bytes |-> 0]
FilePath(b) == [st |-> "file", bytes |-> b]

\* the specs list of lines 206-211
Specs(a) ==
    <<[label |-> "LF-default", path |-> a.default]>>
    \o (IF a.thrash.st # "none" THEN <<[label |-> "LF-thrash", path |-> a.thrash]>> ELSE <<>>)
    \o (IF a.scramble.st # "none" THEN <<[label |-> "LF-scramble", path |-> a.scramble]>> ELSE <<>>)

\* label.lower().endswith("thrash") and thrash_jitter_pct
Jittered(label, pct) == label = "LF-thrash" /\ pct # 0

\* x * (1.0 + thrash_jitter_pct / 100.0), exact for the percentages 0 and 100
JitterX(x, pct) == (x * (100 + pct)) \div 100

\* a line printed on the console
Msg(kind, a, b, d, groups, lines) ==
    [kind |-> kind, a |-> a, b |-> b, d |-> d, groups |-> groups, lines |-> lines]

\* what ax.get_ylim() may answer once the series are drawn: the renderer's choice
YLims == {<<YPos(12, 50, 0), YPos(50, 0, 0)>>, <<YPos(98, 0, 0), YPos(20, 0, 1)>>}

----------------------------------------------------------------------------
(* make_overlay, one step at a time *)

PipeIdle ==
    /\ pc = "idle" /\ args = [default |-> NoPath, thrash |-> NoPath, scramble |-> NoPath,
                              jitter |-> 0, style |-> "overlay"]
    /\ idx = 0 /\ dirCreated = FALSE /\ printed = <<>> /\ digests = <<>>
    /\ series_data = <<>> /\ fitcalls = <<>> /\ drawn = <<>> /\ caption = <<>>
    /\ handles = <<>> /\ yticks = <<>> /\ outWritten = FALSE /\ err = "none"
LoadIdle == l_file = Obj(JAbsent, JAbsent, JAbsent, Absent) /\ l_out = [st |-> "idle"]
FitIdle == f_in = [xs |-> <<>>, ys |-> <<>>] /\ f_out = [st |-> "idle"]
EnvIdle == py_sum = "naive"
EnvInit == py_sum \in SumImpls
TickIdle == t_in = [ymin |-> YSpecial("zero"), ymax |-> YSpecial("zero"), max_labels |-> 0]
            /\ t_out = [st |-> "idle"]

\* the percentages given as --thrash-jitter
JitterPcts == {0, 100}

PipeInit ==
    /\ pc = "start"
    /\ args \in [default : {MissingPath} \cup {FilePath(b) : b \in FileIds},
                 thrash : {NoPath, MissingPath} \cup {FilePath(b) : b \in FileIds},
                 scramble : {NoPath, MissingPath} \cup {FilePath(b) : b \in FileIds},
                 jitter : JitterPcts,
                 style : {"overlay", "paper"}]
    /\ idx = 0 /\ dirCreated = FALSE /\ printed = <<>> /\ digests = <<>>
    /\ series_data = <<>> /\ fitcalls = <<>> /\ drawn = <<>> /\ caption = <<>>
    /\ handles = <<>> /\ yticks = <<>> /\ outWritten = FALSE /\ err = "none"

\* lines 204-214: the output directory is made, specs is built, the header is printed
Begin ==
    /\ pc = "start"
    /\ dirCreated' = TRUE
    /\ printed' = Append(printed, Msg("hashhdr", "", "", 0, <<>>, <<>>))
    /\ idx' = 1
    /\ pc' = "hash"
    /\ UNCHANGED <<args, digests, series_data, fitcalls, drawn, caption, handles,
                   yticks, outWritten, err>>

\* lines 216-219, one input: p.read_bytes() raises for a file that is not there
HashOne ==
    /\ pc = "hash"
    /\ idx <= Len(Specs(args))
    /\ LET sp == Specs(args)[idx]
       IN  IF sp.path.st = "missing"
           THEN /\ err' = "FileNotFoundError"
                /\ pc' = "failed"
                /\ UNCHANGED <<idx, digests, printed>>
           ELSE /\ digests' = Append(digests, [label |-> sp.label,
                                               d |-> sha256_short(sp.path.bytes)])
                /\ printed' = Append(printed, Msg("hash", sp.label, "",
                                                  sha256_short(sp.path.bytes), <<>>, <<>>))
                /\ idx' = idx + 1
                /\ UNCHANGED <<pc, err>>
    /\ UNCHANGED <<args, dirCreated, series_data, fitcalls, drawn, caption, handles,
                   yticks, outWritten>>

\* lines 220-232: the byte-identical warning, then the figure is set up
DupWarn ==
    /\ pc = "hash"
    /\ idx > Len(Specs(args))
    /\ printed' = IF DupGroups(digests) # <<>>
                  THEN Append(printed, Msg("dupwarn", "", "", 0, DupGroups(digests), <<>>))
                  ELSE printed
    /\ idx' = 1
    /\ pc' = "load"
    /\ UNCHANGED <<args, dirCreated, digests, series_data, fitcalls, drawn, caption,
                   handles, yticks, outWritten, err>>

\* lines 238-274, one series: load, jitter, record, and unless it is empty draw,
\* fit and caption it
LoadOne ==
    /\ pc = "load"
    /\ idx <= Len(Specs(args))
    /\ LET sp == Specs(args)[idx]
           r == load_series(FileObj(sp.path.bytes))
           xs == IF Jittered(sp.label, args.jitter)
                 THEN [i \in 1..Len(r.xs) |-> JitterX(r.xs[i], args.jitter)]
                 ELSE r.xs
           fit == ols_log10(py_sum, xs, r.ys)
       IN  IF ~r.ok
           THEN /\ err' = r.exc
                /\ pc' = "failed"
                /\ UNCHANGED <<idx, series_data, fitcalls, drawn, caption, handles>>
           ELSE /\ series_data' = Append(series_data,
                                         [label |-> sp.label, xs |-> xs, ys |-> r.ys])
                /\ idx' = idx + 1
                /\ UNCHANGED <<pc, err>>
                /\ IF xs = <<>>
                   THEN UNCHANGED <<fitcalls, drawn, caption, handles>>
                   ELSE /\ drawn' = Append(drawn, sp.label)
                        /\ fitcalls' = Append(fitcalls,
                                              [label |-> sp.label, xs |-> xs, ys |-> r.ys])
                        /\ caption' = Append(caption, [label |-> sp.label, fit |-> fit])
                        /\ handles' = Append(handles, sp.label)
    /\ UNCHANGED <<args, dirCreated, printed, digests, yticks, outWritten>>

\* lines 276-284: the numerically-identical warnings
NumericWarn ==
    /\ pc = "load"
    /\ idx > Len(Specs(args))
    /\ printed' = printed \o [i \in 1..Len(NumericWarnings(series_data)) |->
                                Msg("numwarn", NumericWarnings(series_data)[i].a,
                                    NumericWarnings(series_data)[i].b, 0, <<>>, <<>>)]
    /\ pc' = "render"
    /\ UNCHANGED <<args, idx, dirCreated, digests, series_data, fitcalls, drawn,
                   caption, handles, yticks, outWritten, err>>

\* lines 286-343: ticks for the y range the renderer reports (overlay style),
\* legend, the figure is saved, and the caption is printed
Finish ==
    /\ pc = "render"
    /\ \E lim \in YLims :
          yticks' = IF args.style = "overlay"
                    THEN nice_sparse_log_ticks(lim[1], lim[2], 4)
                    ELSE <<>>
    /\ outWritten' = TRUE
    /\ printed' = printed \o <<Msg("ok", "", "", 0, <<>>, <<>>),
                               Msg("caphdr", "", "", 0, <<>>, <<>>),
                               Msg("caption", "", "", 0, <<>>, caption)>>
    /\ pc' = "done"
    /\ UNCHANGED <<args, idx, dirCreated, digests, series_data, fitcalls, drawn,
                   caption, handles, err>>

Init == LoadIdle /\ FitIdle /\ TickIdle /\ EnvInit /\ PipeInit

Next ==
    \/ Begin /\ UNCHANGED <<loadVars, fitVars, tickVars, envVars>>
    \/ HashOne /\ UNCHANGED <<loadVars, fitVars, tickVars, envVars>>
    \/ DupWarn /\ UNCHANGED <<loadVars, fitVars, tickVars, envVars>>
    \/ LoadOne /\ UNCHANGED <<loadVars, fitVars, tickVars, envVars>>
    \/ NumericWarn /\ UNCHANGED <<loadVars, fitVars, tickVars, envVars>>
    \/ Finish /\ UNCHANGED <<loadVars, fitVars, tickVars, envVars>>

Spec == Init /\ [][Next]_vars

----------------------------------------------------------------------------
(* load_series on its own *)

\* the elements a list of points is drawn from
Items ==
    { Dict(N(3), N(1), N(5)),          \* a point with a run count
      Dict(S(1), N(2), Absent),        \* dt as a numeral in a string, no "runs"
      Dict(N(3), N(2), N(7)),          \* the dt of the first, another y and run count
      Dict(N(0), N(1), N(1)),          \* dt = 0
      Dict(Absent, N(1), N(1)),        \* no "dt"
      Dict(N(2), BadStr, N(1)),        \* tail_median not a number
      Dict(N(2), N(1), Null),          \* "runs": null
      Pair(N(3), N(1)),
      Pair(N(1), N(2)),
      List(N(3), N(2), N(9)),          \* a third element, ignored
      Pair(N(2), N(-1)),               \* y < 0
      Pair(BadStr, N(1)),              \* x not a number
      List(N(1), Absent, Absent) }     \* a list of one element

\* the files holding the list L: under "report", under "series" (with "report"
\* missing or null), under "points" (with or without "n"), under "report" and
\* "points" both, under "points" beside a "report" that is no list, and under
\* no known key
FilesOf(L) ==
    { Obj(JList(L), JAbsent, JAbsent, Absent),
      Obj(JNull, JList(L), JAbsent, Absent),
      Obj(JAbsent, JAbsent, JList(L), Absent),
      Obj(JAbsent, JAbsent, JList(L), N(7)),
      Obj(JList(L), JAbsent, JList(L), Absent),
      Obj(JOther, JAbsent, JList(L), Absent),
      Obj(JAbsent, JAbsent, JOther, Absent) }

LoadInit ==
    /\ \E n \in 0..MaxItems : \E L \in [1..n -> Items] : l_file \in FilesOf(L)
    /\ l_out = [st |-> "idle"]

LoadCall ==
    /\ l_out.st = "idle"
    /\ l_out' = [st |-> "returned", res |-> load_series(l_file)]
    /\ UNCHANGED l_file

InitLoad == PipeIdle /\ FitIdle /\ TickIdle /\ EnvIdle /\ LoadInit
NextLoad == LoadCall /\ UNCHANGED <<pipeVars, fitVars, tickVars, envVars>>
SpecLoad == InitLoad /\ [][NextLoad]_vars

----------------------------------------------------------------------------
(* ols_log10 on its own *)

\* the x and y a series is drawn from (the fitter checks positivity again)
FitXs == {0, 1, 2, 31}
FitYs == {0, 1, 2}

FitInit ==
    /\ \E n \in 0..MaxPts, m \in 0..MaxPts :
          f_in \in [xs : [1..n -> FitXs], ys : [1..m -> FitYs]]
    /\ f_out = [st |-> "idle"]

FitCall ==
    /\ f_out.st = "idle"
    /\ f_out' = [st |-> "returned", res |-> ols_log10(py_sum, f_in.xs, f_in.ys)]
    /\ UNCHANGED f_in

InitFit == PipeIdle /\ LoadIdle /\ TickIdle /\ EnvInit /\ FitInit
NextFit == FitCall /\ UNCHANGED <<pipeVars, loadVars, tickVars, envVars>>
SpecFit == InitFit /\ [][NextFit]_vars

----------------------------------------------------------------------------
(* _nice_sparse_log_ticks on its own *)

\* the axis limits: mantissas at, between and around candidates, each exact or
\* 5e-13 below, 5e-13 above or 1.5e-12 above, in two decades; and the limits
\* that are not positive finite numbers
TickYs ==
    { YPos(t, e, k) : t \in {11, 12, 13, 30, 98, 99}, e \in {-50, 0, 50, 150}, k \in {0, 1} }
    \cup { YPos(10, e, k) : e \in {0, 50}, k \in {0, 1} }
    \cup { YSpecial(c) : c \in {"zero", "neg", "inf", "nan"} }

TickInit ==
    /\ t_in \in [ymin : TickYs, ymax : TickYs, max_labels : 0..MaxLabels]
    /\ t_out = [st |-> "idle"]

TickCall ==
    /\ t_out.st = "idle"
    /\ t_out' = [st |-> "returned",
                 res |-> nice_sparse_log_ticks(t_in.ymin, t_in.ymax, t_in.max_labels)]
    /\ UNCHANGED t_in

InitTicks == PipeIdle /\ LoadIdle /\ FitIdle /\ EnvIdle /\ TickInit
NextTicks == TickCall /\ UNCHANGED <<pipeVars, loadVars, fitVars, envVars>>
SpecTicks == InitTicks /\ [][NextTicks]_vars

----------------------------------------------------------------------------
(* What the claims are stated over *)

\* some configured input does not exist
MissingConfigured == \E i \in 1..Len(Specs(args)) : Specs(args)[i].path.st = "missing"

\* the series load_series returns for the i-th configured input, before any jitter
LoadedOf(i) == load_series(FileObj(Specs(args)[i].path.bytes))

\* the byte-identical groups reported on the console (none: no warning line)
ReportedGroups ==
    IF \E i \in 1..Len(printed) : printed[i].kind = "dupwarn"
    THEN (CHOOSE m \in {printed[i] : i \in 1..Len(printed)} : m.kind = "dupwarn").groups
    ELSE <<>>

\* the labels of a reported group
GroupSet(g) == {g[i] : i \in 1..Len(g)}

\* the numerically-identical warning was printed for the labels a and b
NumWarned(a, b) ==
    \E i \in 1..Len(printed) :
        printed[i].kind = "numwarn" /\ printed[i].a = a /\ printed[i].b = b

\* the duplicate-file check has run
DupChecked ==
    \/ pc \in {"load", "render", "done"}
    \/ pc = "failed" /\ Len(digests) = Len(Specs(args))

\* the elements of s, in order, whose x is c
RECURSIVE WithX(_, _)
WithX(s, c) ==
    IF s = <<>> THEN <<>>
    ELSE IF Head(s).x = c THEN <<Head(s)>> \o WithX(Tail(s), c)
    ELSE WithX(Tail(s), c)

\* a well-formed point of each schema
ValidA(it) ==
    /\ it.shape = "dict"
    /\ it.a.t \in {"num", "numstr"} /\ it.b.t \in {"num", "numstr"}
    /\ it.a.v > 0 /\ it.b.v > 0
ValidB(it) ==
    /\ it.shape = "list" /\ ListLen(it) >= 2
    /\ it.a.t \in {"num", "numstr"} /\ it.b.t \in {"num", "numstr"}
    /\ it.a.v > 0 /\ it.b.v > 0
CountA(L) == Cardinality({i \in 1..Len(L) : ValidA(L[i])})
CountB(L) == Cardinality({i \in 1..Len(L) : ValidB(L[i])})

\* the file keeps its points under "report"/"series" only, or under "points" only
OnlyDictKeys(f) == TryGetItems(f).items # <<>> /\ f.points.t = "absent"
OnlyPoints(f) == f.report.t \in {"absent", "null"} /\ f.series.t \in {"absent", "null"}
                 /\ f.points.t = "list"

\* a tick as a mantissa of the decade k
TickMant(tk) == [c |-> 10 * tk.c, f |-> 0]
\* the tick lies in [ymin - tol, ymax + tol] (tol in units of 1e-14 * 10^k)
TickWithin(tk, ymin, ymax, tol) ==
    /\ tk.kind = "cand"
    /\ LeqTol(Mantissa(ymin, ymin.k), TickMant(tk), tol)
    /\ LeqTol(TickMant(tk), Mantissa(ymax, ymin.k), tol)
\* some candidate mantissa times 10^k lies in [ymin, ymax]
SomeCandidateInRange(ymin, ymax) ==
    \E i \in 1..Len(Cand) :
        TickWithin([kind |-> "cand", c |-> Cand[i], k |-> ymin.k], ymin, ymax, 0)

----------------------------------------------------------------------------
(* The claims *)

\* C1 (as claimed): if a configured input does not exist, the run fails before
\* anything is computed or created: no output directory, no fingerprint, no
\* series loaded or fitted, no artifact.
C1_NothingDoneWhenInputMissing ==
    MissingConfigured =>
        /\ pc \in {"start", "failed"}
        /\ ~dirCreated /\ digests = <<>> /\ printed = <<>>
        /\ series_data = <<>> /\ fitcalls = <<>> /\ ~outWritten

\* C2 (as claimed): when the run is done the caption holds exactly one line per
\* series given, in the order given, a fit line when a fit is available and
\* "fit n/a" otherwise, an empty series included.
C2_OneCaptionLinePerSeries ==
    pc = "done" =>
        /\ Len(caption) = Len(Specs(args))
        /\ \A i \in 1..Len(caption) :
              /\ caption[i].label = Specs(args)[i].label
              /\ (LoadedOf(i).xs = <<>> => ~caption[i].fit.some)

\* C3 (as claimed): load_series never fails on a malformed point, and returns
\* every well-formed point of the file.
C3_MalformedPointsOnlySkipped ==
    l_out.st = "returned" =>
        /\ l_out.res.ok
        /\ (OnlyDictKeys(l_file) => Len(l_out.res.xs) = CountA(TryGetItems(l_file).items))
        /\ (OnlyPoints(l_file) => Len(l_out.res.xs) = CountB(l_file.points.items))

\* C4 (as claimed): whatever the jitter, the data given to the fitter for a
\* series is the data load_series returned for it.
C4_FitterSeesLoadedData ==
    \A i \in 1..Len(fitcalls) :
        \A j \in 1..Len(Specs(args)) :
            Specs(args)[j].label = fitcalls[i].label =>
                /\ fitcalls[i].xs = LoadedOf(j).xs
                /\ fitcalls[i].ys = LoadedOf(j).ys

\* C5 (as claimed): the numerically-identical warning is printed for a pair of
\* series exactly when the loaded series have equal length and agree
\* elementwise within 1e-12 in x and in y, whatever the options.
C5_WarnedIffNearlyIdentical ==
    pc \in {"render", "done"} =>
        \A i \in 1..Len(Specs(args)) : \A j \in (i + 1)..Len(Specs(args)) :
            NumWarned(Specs(args)[i].label, Specs(args)[j].label)
            <=> /\ nearly_identical(LoadedOf(i).xs, LoadedOf(j).xs)
                /\ nearly_identical(LoadedOf(i).ys, LoadedOf(j).ys)

\* C6: every point load_series returns has x > 0 and y > 0, and xs, ys and runs
\* have one length.
C6_ReturnedPointsPositive ==
    (l_out.st = "returned" /\ l_out.res.ok) =>
        /\ Len(l_out.res.xs) = Len(l_out.res.ys)
        /\ Len(l_out.res.xs) = Len(l_out.res.runs)
        /\ \A i \in 1..Len(l_out.res.xs) : l_out.res.xs[i] > 0 /\ l_out.res.ys[i] > 0

\* C6 witness: a file with a point of non-positive y next to good points was loaded
C6_Witness ==
    /\ l_out.st = "returned" /\ l_out.res.ok
    /\ Len(l_out.res.xs) = 2
    /\ l_file.points.t = "list" /\ Len(l_file.points.items) = 3
    /\ l_file.points.items[2] = Pair(N(2), N(-1))
    /\ l_file.report.t = "absent"

\* C7: the series load_series returns is ascending in x, and for every x the
\* points with that x keep the order they had in the file, each with the y and
\* the run count it was read with (a stable sort of whole points).
C7_StableSortKeepsPointsAligned ==
    (l_out.st = "returned" /\ l_out.res.ok) =>
        LET out == Zip3(l_out.res.xs, l_out.res.ys, l_out.res.runs)
            read == Zip3(Parsed(l_file).xs, Parsed(l_file).ys, Parsed(l_file).runs)
        IN  /\ Len(out) = Len(read)
            /\ \A i \in 1..(Len(out) - 1) : out[i].x <= out[i + 1].x
            /\ \A i \in 1..Len(read) : WithX(out, read[i].x) = WithX(read, read[i].x)

\* C7 witness: three points out of order in the file, two of them with one x
\* and different y and run counts, were returned
C7_Witness ==
    /\ l_out.st = "returned" /\ l_out.res.ok
    /\ l_file.report.t = "list" /\ l_file.points.t = "absent"
    /\ l_file.report.items = <<Dict(N(3), N(1), N(5)), Dict(N(3), N(2), N(7)),
                               Dict(S(1), N(2), Absent)>>
    /\ l_out.res.xs = <<1, 3, 3>> /\ l_out.res.ys = <<2, 1, 2>>
    /\ l_out.res.runs = <<0, 5, 7>>

\* C8 (as claimed): ols_log10 returns None when fewer than 3 points are usable
\* and when all usable x are identical, and otherwise a fit whose n is the
\* number of usable points.
C8_NoFitIffUnderdetermined ==
    f_out.st = "returned" =>
        LET u == Usable(f_in.xs, f_in.ys)
        IN  IF Len(u) < 3 \/ (\A i \in 1..Len(u) : u[i].x = u[1].x)
            THEN ~f_out.res.some
            ELSE f_out.res.some /\ f_out.res.n = Len(u)

\* C9: once the duplicate-file check has run, inputs with the same bytes are in
\* one reported group, every reported group has more than one label and holds
\* exactly the labels of the inputs with its fingerprint, and a run that
\* reported a group went on to load the series.
C9_ByteIdenticalInputsGrouped ==
    DupChecked =>
        /\ \A i, j \in 1..Len(Specs(args)) :
              (i # j /\ Specs(args)[i].path.bytes = Specs(args)[j].path.bytes) =>
                  \E g \in 1..Len(ReportedGroups) :
                      {Specs(args)[i].label, Specs(args)[j].label}
                          \subseteq GroupSet(ReportedGroups[g])
        /\ \A g \in 1..Len(ReportedGroups) :
              /\ Len(ReportedGroups[g]) > 1
              /\ \E d \in {digests[i].d : i \in 1..Len(digests)} :
                    GroupSet(ReportedGroups[g])
                        = {digests[i].label : i \in {n \in 1..Len(digests) : digests[n].d = d}}
        /\ (ReportedGroups # <<>> /\ pc = "failed") => idx <= Len(Specs(args))

\* C9 witness: default and scramble hold the same bytes, thrash other bytes, and
\* the run completed having reported exactly that pair
C9_Witness ==
    /\ pc = "done"
    /\ args.default = FilePath(2) /\ args.thrash = FilePath(3) /\ args.scramble = FilePath(2)
    /\ ReportedGroups = << <<"LF-default", "LF-scramble">> >>

\* C10 (as claimed): no ticks for a limit that is not a positive finite number;
\* otherwise at most max_labels ticks, all of them within [ymin, ymax] when
\* some candidate mantissa times 10^k lies in that range.
C10_TicksWithinLimits ==
    t_out.st = "returned" =>
        IF t_in.ymin.cls # "pos" \/ t_in.ymax.cls # "pos"
        THEN t_out.res = <<>>
        ELSE /\ Len(t_out.res) <= t_in.max_labels
             /\ SomeCandidateInRange(t_in.ymin, t_in.ymax) =>
                   \A i \in 1..Len(t_out.res) :
                       TickWithin(t_out.res[i], t_in.ymin, t_in.ymax, 0)

\* C10 (amended): as above, but the ticks lie within [ymin, ymax] widened by the
\* selector's tolerance, 1e-12 * 10^k on either side.
C10_TicksWithinLimitsUpToTolerance ==
    t_out.st = "returned" =>
        IF t_in.ymin.cls # "pos" \/ t_in.ymax.cls # "pos"
        THEN t_out.res = <<>>
        ELSE /\ Len(t_out.res) <= t_in.max_labels
             /\ SomeCandidateInRange(t_in.ymin, t_in.ymax) =>
                   \A i \in 1..Len(t_out.res) :
                       TickWithin(t_out.res[i], t_in.ymin, t_in.ymax, TickTol)

\* C10 witness: four ticks were chosen out of more candidates, the first 5e-13
\* below ymin (inside the tolerance only), the others inside [ymin, ymax]
C10_Witness ==
    /\ t_out.st = "returned"
    /\ t_in.ymin = YPos(12, 50, 0) /\ t_in.ymax = YPos(30, 0, 0) /\ t_in.max_labels = 4
    /\ Len(t_out.res) = 4
    /\ t_out.res[1].c = 12 /\ t_out.res[4].c = 30
    /\ ~TickWithin(t_out.res[1], t_in.ymin, t_in.ymax, 0)
    /\ TickWithin(t_out.res[2], t_in.ymin, t_in.ymax, 0)

====
